---------------------------- MODULE Spec2Model ----------------------------
(***************************************************************************)
(* Model of the synthetic e-commerce data generators of                    *)
(* business_intelligence_suite:                                            *)
(*   src/src/data_generator.py        EcommerceDataGenerator               *)
(*   src/src/data_generator_fixed.py  RobustDataGenerator                  *)
(* and of generate_insights of src/dashboards/sales_dashboard_fixed.py.    *)
(*                                                                         *)
(* Conventions of the model                                                *)
(*   - money is an integer number of cents (the code rounds every stored   *)
(*     amount to 2 decimals);                                              *)
(*   - a fraction drawn by the code is an integer number of 1/10000        *)
(*     ("basis points"), a grid finer than any rounding the code applies   *)
(*     to it; the margin draw of EcommerceDataGenerator, which is rounded  *)
(*     once by itself and once within the cost, is an integer number of    *)
(*     1/100000;                                                           *)
(*   - a percentage stored with one decimal is an integer number of tenths *)
(*     of a percent;                                                       *)
(*   - a date is a day number, day 0 being Monday 2024-01-01;              *)
(*   - None / NaN / NaT is Null;                                           *)
(*   - the columns no property reads (names, sku, supplier, weight, the    *)
(*     payment method, the channel, the copied category columns, the       *)
(*     datetime column) are left out of the records;                       *)
(*   - the values the seeded random sources deliver are chosen one by one, *)
(*     and recorded in `stream` in the order they are delivered.           *)
(* generate_all_data is modelled as the method of the class that its body  *)
(* is written as (its def line is indented one level too deep in the       *)
(* file).                                                                  *)
(***************************************************************************)
EXTENDS Integers, Sequences, FiniteSets, TLC

\* ------------------------------------------------------------- bounds
\* Largest n_products / n_customers / n_days a caller configures.
MaxProducts == 2
\* Largest n_products configured for a whole run of generate_all_data.
MaxProductsAll == 1
MaxCustomers == 2
MaxDays == 2
\* Largest value a Poisson draw delivers for the base number of sales of a day.
MaxBase == 1
\* Most sale records one run generates (the daily draws stay below it).
MaxSales == 2
\* Most rows of the sales table handed to generate_insights (its trend needs
\* more than 7).
MaxRows == 8

\* ------------------------------------------------------ draw domains
\* Values the price draw of EcommerceDataGenerator (lognormal * 10, rounded to
\* cents) delivers.
Prices == {1999}
\* Values its margin draw (uniform(0.3, 0.7)) delivers, in 1/100000.
Margins == {33349}
\* Values the price draw of RobustDataGenerator (uniform(10, 500), rounded to
\* cents) delivers.
RobustPrices == {1000, 49999}
\* Values its cost factor draw (uniform(0.3, 0.7)) delivers, in basis points.
RobustCostFactors == {3000, 7000}
\* Values the discount draw (uniform(0, 0.3)) delivers, in basis points.
Discounts == {1234}
\* Clock readings (datetime.now()) at which a run starts.
\* 74 = Fri 2024-03-15, 343 = Mon 2024-12-09.
Clocks == {74, 343}

Null == -1

\* ---------------------------------------------------------- helpers
\* round(a / b) for naturals, ties to even (Python's round).
RoundDiv(a, b) ==
    LET q == a \div b
        r == a % b
    IN  IF 2 * r < b THEN q
        ELSE IF 2 * r > b THEN q + 1
        ELSE IF q % 2 = 0 THEN q ELSE q + 1

Max2(a, b) == IF a >= b THEN a ELSE b

\* date.weekday(): Monday is 0, Sunday is 6.
Weekday(d) == d % 7

\* date.month, days 0..365 being the days of 2024.
MonthOf(d) ==
    LET y == d % 366
    IN  IF y < 31 THEN 1 ELSE IF y < 60 THEN 2 ELSE IF y < 91 THEN 3
        ELSE IF y < 121 THEN 4 ELSE IF y < 152 THEN 5 ELSE IF y < 182 THEN 6
        ELSE IF y < 213 THEN 7 ELSE IF y < 244 THEN 8 ELSE IF y < 274 THEN 9
        ELSE IF y < 305 THEN 10 ELSE IF y < 335 THEN 11 ELSE 12

\* seasonal_factor's day_factor, times 10.
DayFactor10(d) == IF Weekday(d) >= 4 THEN 15 ELSE 10

\* A month factor without seasons.
FlatMonthFactor10(d) == 10

\* A month factor with a slump in the seasonal months.
SlumpMonthFactor10(d) == IF MonthOf(d) \in {6, 7, 11, 12} THEN 5 ELSE 10

\* seasonal_factor's month_factor, times 10.
MonthFactor10(d) ==
    LET month == MonthOf(d)
    IN  IF month = 12 THEN 25
        ELSE IF month = 11 THEN 20
        ELSE IF month \in {6, 7} THEN 13
        ELSE 10

\* seasonal_factor(date), times 100.
SeasonalFactor100(d) == DayFactor10(d) * MonthFactor10(d)

\* daily_sales = int(base_sales * seasonal_adjustment)
DailySales(base_sales, d) == (base_sales * SeasonalFactor100(d)) \div 100


\* ------------------------------------------------------------ state
VARIABLES
    gen,            \* "ecommerce" (EcommerceDataGenerator) or "robust" (RobustDataGenerator)
    entry,          \* the method the caller invoked
    n_products,     \* self.n_products
    n_customers,    \* self.n_customers
    n_days,         \* self.n_days / the n_days argument
    save_to_csv,    \* generate_all_data's argument
    now,            \* what datetime.now() reads during the run
    pc,             \* where the run is
    products,       \* rows of the Product table
    customers,      \* rows of the Customer table
    calc_cols,      \* the Customer table carries the calc_* columns
    sales,          \* rows of the Sale table
    inventory,      \* rows of the Inventory table
    sale_id,        \* generate_sales' counter
    day,            \* generate_sales' day loop: days started so far
    current_date,   \* generate_sales' current_date
    left,           \* sales still to generate for the current day
    base_sales,     \* generate_sales' base_sales: the day's Poisson draw
    seasonal_adjustment, \* generate_sales' seasonal_adjustment, times 100
    stock,          \* generate_inventory's locals, a record, for the current product
    stats_error,    \* the derived-stats step printed its error message
    files,          \* csv files written by this run
    outcome,        \* "running", "returned", or the exception the caller sees
    stream,         \* values the seeded sources delivered in the first run
    pos,            \* values the seeded sources delivered so far in this run
    run,            \* 1, or 2 for a second run with the same seed
    prev,           \* the tables the first run returned
    insights,       \* generate_insights' list of messages
    trend           \* generate_insights' trend: the sign of the fitted slope

config == <<gen, entry, n_products, n_customers, n_days, save_to_csv>>
tables == <<products, customers, calc_cols, sales, inventory>>
salesLocals == <<sale_id, day, current_date, left, base_sales,
                seasonal_adjustment>>
rng == <<stream, pos>>
insightLocals == <<insights, trend>>
vars == <<config, now, pc, tables, salesLocals, stock, stats_error, files,
          outcome, rng, run, prev, insightLocals>>

\* ------------------------------------------------- the random sources
\* The values the k-th draw of a step may deliver from support S: any of S in
\* a first run; in a second run with the same seed, the value the first run
\* got at the same place of the stream (while the two runs still ask for the
\* same kind of value there).
Draw(S, k) ==
    IF run = 2 /\ pos + k <= Len(stream) /\ stream[pos + k] \in S
    THEN {stream[pos + k]}
    ELSE S

\* The step consumed the values vals, in this order.
Consume(vals) ==
    /\ pos' = pos + Len(vals)
    /\ stream' = IF run = 1 THEN stream \o vals ELSE stream

NoDraw == UNCHANGED rng

\* ------------------------------------------------------------- Init
NoStock == [product |-> 0, days |-> 0, current_stock |-> 0,
            reorder_point |-> 0, ideal_stock |-> 0, restock |-> Null]

\* __init__ of either class, at one of the clock readings T: the sources are
\* seeded, nothing is generated yet. The caller has set the counts it wants.
ConstructedAt(T) ==
    /\ n_products \in 0 .. (IF entry = "generate_all_data"
                            THEN MaxProductsAll ELSE MaxProducts)
    /\ now \in T
    /\ pc = "products"
    /\ products = << >>
    /\ customers = << >>
    /\ calc_cols = FALSE
    /\ sales = << >>
    /\ inventory = << >>
    /\ sale_id = 0
    /\ day = 0
    /\ current_date = 0
    /\ left = 0
    /\ base_sales = 0
    /\ seasonal_adjustment = 0
    /\ stock = NoStock
    /\ stats_error = FALSE
    /\ files = {}
    /\ outcome = "running"
    /\ stream = << >>
    /\ pos = 0
    /\ run = 1
    /\ prev = << >>
    /\ insights = << >>
    /\ trend = "none"

Constructed == ConstructedAt(Clocks)

\* EcommerceDataGenerator(seed).generate_all_data(save_to_csv) is called.
Init ==
    /\ gen = "ecommerce"
    /\ entry = "generate_all_data"
    /\ n_customers \in 0 .. MaxCustomers
    /\ n_days \in 0 .. MaxDays
    /\ save_to_csv \in BOOLEAN
    /\ Constructed

\* EcommerceDataGenerator(seed).generate_all_data(save_to_csv=False) is
\* called, by a caller that will call it again.
InitRerun ==
    /\ gen = "ecommerce"
    /\ entry = "generate_all_data"
    /\ n_customers \in 0 .. MaxCustomers
    /\ n_days \in 0 .. MaxDays
    /\ save_to_csv = FALSE
    /\ Constructed

\* EcommerceDataGenerator.generate_sales is called on the tables the class
\* generates.
InitSales ==
    /\ gen = "ecommerce"
    /\ entry = "generate_sales"
    /\ n_customers \in 0 .. MaxCustomers
    /\ n_days \in 0 .. MaxDays
    /\ save_to_csv = FALSE
    /\ Constructed

\* RobustDataGenerator.generate_sales is called on the products the class
\* generates; the class has no customers.
InitRobust ==
    /\ gen = "robust"
    /\ entry = "generate_sales"
    /\ n_customers = 0
    /\ n_days \in 0 .. MaxDays
    /\ save_to_csv = FALSE
    /\ Constructed

\* EcommerceDataGenerator.generate_inventory is called on the products the
\* class generates.
InitInventory ==
    /\ gen = "ecommerce"
    /\ entry = "generate_inventory"
    /\ n_customers = 0
    /\ n_days = 0
    /\ save_to_csv = FALSE
    /\ Constructed

\* EcommerceDataGenerator(seed, n_products=1, n_customers=1)
\* .generate_all_data() is called with saving, on 2024-03-15.
InitStages ==
    /\ gen = "ecommerce"
    /\ entry = "generate_all_data"
    /\ n_products = 1
    /\ n_customers = 1
    /\ n_days \in 0 .. MaxDays
    /\ save_to_csv = TRUE
    /\ ConstructedAt({74})

\* Clock readings of the weeks of 2024-03-11, 06-10, 07-08, 11-11 and 12-09
\* (each starts on a Monday).
SeasonClocks == {w + k : w \in {70, 161, 189, 315, 343}, k \in 0 .. 6}

\* EcommerceDataGenerator.generate_sales is called, in any of these weeks, on
\* one product and one customer.
InitSeasonal ==
    /\ gen = "ecommerce"
    /\ entry = "generate_sales"
    /\ n_products = 1
    /\ n_customers = 1
    /\ n_days \in 0 .. MaxDays
    /\ save_to_csv = FALSE
    /\ ConstructedAt(SeasonClocks)

\* An exception leaves the method and reaches the caller.
Raise(e) ==
    /\ pc' = "raised"
    /\ outcome' = e

\* ------------------------------------------------ generate_products
\* One product of EcommerceDataGenerator.generate_products.
EcommerceProduct(i, price, margin) ==
    [product_id |-> i,
     price |-> price,
     cost |-> RoundDiv(price * (100000 - margin), 100000),
     margin |-> RoundDiv(margin, 100)]

\* One product of RobustDataGenerator.generate_products.
RobustProduct(i, price, factor) ==
    LET cost == RoundDiv(price * factor, 10000)
    IN  [product_id |-> i,
         price |-> price,
         cost |-> cost,
         margin_pct |-> RoundDiv((price - cost) * 1000, price)]

\* One pass of the loop of generate_products: the next product is drawn and
\* appended.
GenerateProduct ==
    /\ pc = "products"
    /\ Len(products) < n_products
    /\ \E price \in Draw(IF gen = "ecommerce" THEN Prices ELSE RobustPrices, 1) :
       \E m \in Draw(IF gen = "ecommerce" THEN Margins ELSE RobustCostFactors, 2) :
          /\ products' = Append(products,
                IF gen = "ecommerce"
                THEN EcommerceProduct(Len(products) + 1, price, m)
                ELSE RobustProduct(Len(products) + 1, price, m))
          /\ Consume(<<price, m>>)
    /\ UNCHANGED <<config, insightLocals, now, pc, customers, calc_cols, sales, inventory,
                   salesLocals, stock, stats_error, files, outcome, run, prev>>

\* The locals generate_sales sets before its loop.
SalesLocalsAtCall ==
    /\ sale_id' = 1
    /\ day' = 0
    /\ current_date' = now - n_days
    /\ left' = 0
    /\ base_sales' = 0
    /\ seasonal_adjustment' = 0

\* generate_products returns; the caller goes on to its next call.
ProductsReturn ==
    /\ pc = "products"
    /\ Len(products) = n_products
    /\ IF gen = "robust"
       THEN pc' = "day" /\ SalesLocalsAtCall
       ELSE /\ pc' = IF entry = "generate_inventory" THEN "inventory" ELSE "customers"
            /\ UNCHANGED salesLocals
    /\ NoDraw
    /\ UNCHANGED <<config, insightLocals, now, tables, stock, stats_error, files, outcome, run, prev>>

\* ----------------------------------------------- generate_customers
\* Values random.choice(regions) delivers.
Regions == {1}

NewCustomer(i, region) ==
    [customer_id |-> i,
     region |-> region,
     last_purchase_date |-> Null,
     total_spent |-> 0,
     total_orders |-> 0]

\* One pass of the loop of generate_customers.
GenerateCustomer ==
    /\ pc = "customers"
    /\ Len(customers) < n_customers
    /\ \E region \in Draw(Regions, 1) :
          /\ customers' = Append(customers, NewCustomer(Len(customers) + 1, region))
          /\ Consume(<<region>>)
    /\ UNCHANGED <<config, insightLocals, now, pc, products, calc_cols, sales, inventory,
                   salesLocals, stock, stats_error, files, outcome, run, prev>>

\* generate_customers returns, and generate_sales is called.
CustomersReturn ==
    /\ pc = "customers"
    /\ Len(customers) = n_customers
    /\ pc' = "day"
    /\ SalesLocalsAtCall
    /\ NoDraw
    /\ UNCHANGED <<config, insightLocals, now, tables, stock, stats_error, files, outcome, run, prev>>

\* --------------------------------------------------- generate_sales
\* Values np.random.choice([1, 2, 3, 4, 5], p=...) delivers: the ends of the list.
Quantities == {1, 5}
\* Values np.random.randint(1, 4) delivers (RobustDataGenerator).
RobustQuantities == 1 .. 3
\* Values np.random.randint(1, 1001) delivers (RobustDataGenerator); the model
\* draws from 1 .. MaxCustomerId.
MaxCustomerId == 2

\* Poisson draws for a day dated d that keep the run within MaxSales records.
EcommerceBaseDraws(d) ==
    {b \in 0 .. MaxBase : Len(sales) + DailySales(b, d) <= MaxSales}

\* The top of the day loop of EcommerceDataGenerator.generate_sales: the date
\* advances, the day's number of sales is drawn and scaled.
EcommerceDayStart ==
    /\ gen = "ecommerce"
    /\ pc = "day"
    /\ day < n_days
    /\ current_date' = current_date + 1
    /\ day' = day + 1
    /\ seasonal_adjustment' = SeasonalFactor100(current_date + 1)
    /\ \E b \in Draw(EcommerceBaseDraws(current_date + 1), 1) :
          /\ base_sales' = b
          /\ left' = DailySales(b, current_date + 1)
          /\ Consume(<<b>>)
    /\ pc' = IF left' > 0 THEN "sale" ELSE "day"
    /\ UNCHANGED <<config, insightLocals, now, tables, sale_id, stock, stats_error, files,
                   outcome, run, prev>>

\* n_sales of RobustDataGenerator.generate_sales is the Poisson draw itself
\* (the weekend only changes the mean of the draw); the draws that keep the
\* run within MaxSales records.
RobustBaseDraws == {b \in 0 .. MaxBase : Len(sales) + b <= MaxSales}

\* The top of the day loop of RobustDataGenerator.generate_sales.
RobustDayStart ==
    /\ gen = "robust"
    /\ pc = "day"
    /\ day < n_days
    /\ current_date' = (now - n_days) + day
    /\ day' = day + 1
    /\ \E n_sales \in Draw(RobustBaseDraws, 1) :
          /\ left' = n_sales
          /\ Consume(<<n_sales>>)
    /\ pc' = IF left' > 0 THEN "sale" ELSE "day"
    /\ UNCHANGED <<config, insightLocals, now, tables, sale_id, base_sales, seasonal_adjustment,
                   stock, stats_error, files, outcome, run, prev>>

\* The sale record EcommerceDataGenerator.generate_sales builds.
EcommerceSale(id, date, product, customer, quantity, discount) ==
    LET subtotal == product.price * quantity
    IN  [sale_id |-> id,
         date |-> date,
         customer_id |-> customer.customer_id,
         product_id |-> product.product_id,
         quantity |-> quantity,
         unit_price |-> product.price,
         subtotal |-> subtotal,
         discount_pct |-> RoundDiv(discount, 10),
         discount_amount |-> RoundDiv(subtotal * discount, 10000),
         total |-> RoundDiv(subtotal * (10000 - discount), 10000),
         cost |-> product.cost * quantity,
         profit |-> RoundDiv((product.price - product.cost) * quantity
                                  * (10000 - discount), 10000)]

\* The sale record RobustDataGenerator.generate_sales builds.
RobustSale(date, product, quantity, customer_id) ==
    [date |-> date,
     product_id |-> product.product_id,
     quantity |-> quantity,
     unit_price |-> product.price,
     total |-> product.price * quantity,
     cost |-> product.cost * quantity,
     profit |-> (product.price - product.cost) * quantity,
     customer_id |-> customer_id]

\* A counter that is not advanced after a sale.
StuckSaleId(id) == id

\* The counter after a sale was appended.
NextSaleId(id) == id + 1

\* One more sale of the day is done.
SaleDone ==
    /\ left' = left - 1
    /\ pc' = IF left' > 0 THEN "sale" ELSE "day"

\* A Customer table whose row at this place counts the sale at once.
CountedPerSale(place) == [customers EXCEPT ![place].total_orders = @ + 1]

\* The Customer table after a sale of the customer at this place was appended:
\* generate_sales only reads customers_df.
CustomersAfterSale(place) == customers

\* One pass of the inner loop of EcommerceDataGenerator.generate_sales.
\* np.random.randint(0, 0) raises ValueError, for an empty product table first.
EcommerceMakeSale ==
    /\ gen = "ecommerce"
    /\ pc = "sale"
    /\ IF Len(products) = 0
       THEN /\ Raise("ValueError")
            /\ NoDraw
            /\ UNCHANGED <<customers, sales, salesLocals>>
       ELSE IF Len(customers) = 0
       THEN /\ Raise("ValueError")
            /\ \E p \in Draw(0 .. Len(products) - 1, 1) : Consume(<<p>>)
            /\ UNCHANGED <<customers, sales, salesLocals>>
       ELSE \E p \in Draw(0 .. Len(products) - 1, 1) :
            \E c \in Draw(0 .. Len(customers) - 1, 2) :
            \E quantity \in Draw(Quantities, 3) :
            \E discounted \in Draw({0, 1}, 4) :
            \E discount \in IF discounted = 1 THEN Draw(Discounts, 5) ELSE {0} :
               /\ sales' = Append(sales,
                     EcommerceSale(sale_id, current_date, products[p + 1],
                                   customers[c + 1], quantity, discount))
               /\ customers' = CustomersAfterSale(c + 1)
               /\ sale_id' = NextSaleId(sale_id)
               /\ SaleDone
               /\ Consume(IF discounted = 1
                          THEN <<p, c, quantity, 1, discount>>
                          ELSE <<p, c, quantity, 0>>)
               /\ UNCHANGED <<day, current_date, base_sales,
                              seasonal_adjustment, outcome>>
    /\ UNCHANGED <<config, insightLocals, now, products, calc_cols, inventory,
                   stock, stats_error, files, run, prev>>

\* One pass of the inner loop of RobustDataGenerator.generate_sales.
\* products_df.sample(1) raises ValueError for an empty product table.
RobustMakeSale ==
    /\ gen = "robust"
    /\ pc = "sale"
    /\ IF Len(products) = 0
       THEN /\ Raise("ValueError")
            /\ NoDraw
            /\ UNCHANGED <<sales, salesLocals>>
       ELSE \E p \in Draw(0 .. Len(products) - 1, 1) :
            \E quantity \in Draw(RobustQuantities, 2) :
            \E customer_id \in Draw(1 .. MaxCustomerId, 3) :
               /\ sales' = Append(sales,
                     RobustSale(current_date, products[p + 1], quantity, customer_id))
               /\ SaleDone
               /\ Consume(<<p, quantity, customer_id>>)
               /\ UNCHANGED <<sale_id, day, current_date, base_sales,
                              seasonal_adjustment, outcome>>
    /\ UNCHANGED <<config, insightLocals, now, products, customers, calc_cols, inventory,
                   stock, stats_error, files, run, prev>>

\* generate_sales returns: to generate_all_data, which calls
\* generate_inventory next, or to the caller.
SalesReturn ==
    /\ pc = "day"
    /\ day = n_days
    /\ IF entry = "generate_all_data"
       THEN pc' = "inventory" /\ UNCHANGED outcome
       ELSE pc' = "done" /\ outcome' = "returned"
    /\ NoDraw
    /\ UNCHANGED <<config, insightLocals, now, tables, salesLocals, stock, stats_error, files,
                   run, prev>>

\* ----------------------------------------------- generate_inventory
\* Days of movements per product: range(30) in the code.
InventoryDays == 2
\* Values np.random.randint(10, 100) delivers for the initial stock.
InitialStocks == {10}
\* Values np.random.poisson(lam=2) delivers for the sales of a day.
Demands == {0, 7}
\* Values np.random.randint(reorder_point, ideal_stock) delivers: the ends of
\* its range.
RestockDraws(reorder_point, ideal_stock) == {reorder_point, ideal_stock - 1}

\* A status that calls a stock at the reorder point OK.
LenientStockStatus(current_stock, reorder_point) ==
    IF current_stock >= reorder_point THEN "OK" ELSE "LOW"

\* stock_status of a record.
StockStatus(current_stock, reorder_point) ==
    IF current_stock > reorder_point THEN "OK" ELSE "LOW"

\* The stock after the day's sales.
AfterSales(current_stock, daily_sales) == Max2(0, current_stock - daily_sales)

\* The record generate_inventory appends for a day.
InventoryRecord(date, product, current_stock, daily_sales, st) ==
    [date |-> date,
     product_id |-> product.product_id,
     current_stock |-> current_stock,
     daily_sales |-> daily_sales,
     reorder_point |-> st.reorder_point,
     ideal_stock |-> st.ideal_stock,
     stock_status |-> StockStatus(current_stock, st.reorder_point)]

\* The outer loop of generate_inventory reaches the next product: its initial
\* stock is drawn, its thresholds are computed.
InventoryProduct ==
    /\ pc = "inventory"
    /\ stock.product < Len(products)
    /\ \E current_stock \in Draw(InitialStocks, 1) :
          /\ stock' = [product |-> stock.product + 1,
                       days |-> 0,
                       current_stock |-> current_stock,
                       reorder_point |-> (current_stock * 3) \div 10,
                       ideal_stock |-> (current_stock * 3) \div 2,
                       restock |-> Null]
          /\ Consume(<<current_stock>>)
    /\ pc' = "inv_day"
    /\ UNCHANGED <<config, insightLocals, now, tables, salesLocals, stats_error, files,
                   outcome, run, prev>>

\* One pass of the inner loop of generate_inventory: the day's sales, the
\* restock if the stock is low and the draw says so, the record.
InventoryDay ==
    /\ pc = "inv_day"
    /\ \E daily_sales \in Draw(Demands, 1) :
       LET after == AfterSales(stock.current_stock, daily_sales)
           low == after <= stock.reorder_point
       IN  \E lucky \in IF low THEN Draw({0, 1}, 2) ELSE {0} :
           \E restock \in IF lucky = 1
                          THEN Draw(RestockDraws(stock.reorder_point,
                                                 stock.ideal_stock), 3)
                          ELSE {0} :
              /\ stock' = [stock EXCEPT !.current_stock = after + restock,
                                        !.days = @ + 1,
                                        !.restock = IF lucky = 1 THEN restock
                                                    ELSE Null]
              /\ inventory' = Append(inventory,
                    InventoryRecord(now - (InventoryDays - stock.days),
                                    products[stock.product],
                                    after + restock, daily_sales, stock))
              /\ Consume(IF ~low THEN <<daily_sales>>
                         ELSE IF lucky = 0 THEN <<daily_sales, 0>>
                         ELSE <<daily_sales, 1, restock>>)
    /\ pc' = IF stock.days + 1 < InventoryDays THEN "inv_day" ELSE "inventory"
    /\ UNCHANGED <<config, insightLocals, now, products, customers, calc_cols, sales,
                   salesLocals, stats_error, files, outcome, run, prev>>

\* generate_inventory returns: to generate_all_data, which updates the
\* customers next, or to the caller.
InventoryReturn ==
    /\ pc = "inventory"
    /\ stock.product = Len(products)
    /\ IF entry = "generate_all_data"
       THEN pc' = "stats" /\ UNCHANGED outcome
       ELSE pc' = "done" /\ outcome' = "returned"
    /\ NoDraw
    /\ UNCHANGED <<config, insightLocals, now, tables, salesLocals, stock, stats_error, files,
                   run, prev>>

\* ------------------------------- generate_all_data: customer statistics
RECURSIVE SumTotal(_)
\* sum of the column total.
SumTotal(rows) ==
    IF rows = << >> THEN 0 ELSE Head(rows).total + SumTotal(Tail(rows))

RECURSIVE MaxDate(_)
\* max of the column date (Null for no row).
MaxDate(rows) ==
    IF rows = << >> THEN Null ELSE Max2(Head(rows).date, MaxDate(Tail(rows)))

\* The rows of sales.groupby("customer_id") for one customer id.
SalesOf(id) == SelectSeq(sales, LAMBDA s : s.customer_id = id)

\* customer_stats: for each customer id of the Sale table, sum of total,
\* count of sale_id, max of date.
CustomerStats ==
    [id \in {sales[k].customer_id : k \in DOMAIN sales} |->
        [calc_total_spent |-> SumTotal(SalesOf(id)),
         calc_total_orders |-> Len(SalesOf(id)),
         calc_last_purchase |-> MaxDate(SalesOf(id))]]

\* The statements of the try block that change the Customer table, in order:
\* 1 the merge (the calc_* columns appear), 2 total_spent, 3 total_orders,
\* 4 last_purchase_date are overwritten under the mask, 5 the calc_* columns
\* are dropped.
StatsStatements == 5

\* A customer row after the first `done` statements of the try block.
StatsRow(c, done) ==
    IF c.customer_id \in DOMAIN CustomerStats
    THEN LET st == CustomerStats[c.customer_id]
         IN  [c EXCEPT
                !.total_spent = IF done >= 2 THEN st.calc_total_spent ELSE @,
                !.total_orders = IF done >= 3 THEN st.calc_total_orders ELSE @,
                !.last_purchase_date =
                    IF done >= 4 THEN st.calc_last_purchase ELSE @]
    ELSE c

\* The Customer table after the first `done` statements of the try block.
StatsTable(done) == [k \in DOMAIN customers |-> StatsRow(customers[k], done)]

\* How many statements of the try block may complete: all of them, or the
\* block is left by an exception after any number of them.
StatsProgress == 0 .. StatsStatements

\* The customer update applied to the Customer table: nothing for an empty
\* Sale table; otherwise the try block, whose exception is caught, reported on
\* the console and followed by the type normalisation like a success. A table
\* that already carries calc_* columns gets the stats columns under the
\* suffix "_calc", which the drop does not name: it keeps temporary columns.
ApplyUpdate ==
    IF sales = << >>
    THEN UNCHANGED <<customers, calc_cols, stats_error>>
    ELSE \E done \in StatsProgress :
            /\ customers' = StatsTable(done)
            /\ calc_cols' = (calc_cols \/ done \in 1 .. StatsStatements - 1)
            /\ stats_error' = (done < StatsStatements)

\* The customer update of generate_all_data.
UpdateCustomers ==
    /\ pc = "stats"
    /\ ApplyUpdate
    /\ pc' = IF save_to_csv THEN "save" ELSE "summary"
    /\ NoDraw
    /\ UNCHANGED <<config, insightLocals, now, products, sales, inventory, salesLocals, stock,
                   files, outcome, run, prev>>

\* The Customer table as the caller may keep it for a comparison.
CustomerTable == [customers |-> customers, calc_cols |-> calc_cols]

\* The update is applied a second time, to the Customer table the first
\* application left and the same Sale table.
UpdateAgain ==
    /\ pc = "summary"
    /\ DOMAIN prev = {}
    /\ prev' = CustomerTable
    /\ ApplyUpdate
    /\ NoDraw
    /\ UNCHANGED <<config, insightLocals, now, pc, products, sales, inventory, salesLocals,
                   stock, files, outcome, run>>

\* ------------------------------------------ generate_all_data: saving
\* The csv files, in the order of the datasets dict.
FileOrder == <<"products", "customers", "sales", "inventory">>

\* os.makedirs("data/raw", exist_ok=True): done, or OSError.
MakeDirs ==
    /\ pc = "save"
    /\ \/ pc' = "write" /\ UNCHANGED outcome
       \/ Raise("OSError")
    /\ NoDraw
    /\ UNCHANGED <<config, insightLocals, now, tables, salesLocals, stock, stats_error, files,
                   run, prev>>

\* One pass of the loop over the datasets: df.to_csv writes the next file,
\* or raises OSError.
WriteCsv ==
    /\ pc = "write"
    /\ \/ /\ files' = files \cup {FileOrder[Cardinality(files) + 1]}
          /\ pc' = IF Cardinality(files') = Len(FileOrder) THEN "summary" ELSE "write"
          /\ UNCHANGED outcome
       \/ /\ Raise("OSError")
          /\ UNCHANGED files
    /\ NoDraw
    /\ UNCHANGED <<config, insightLocals, now, tables, salesLocals, stock, stats_error, run, prev>>

\* The summary is printed and the four tables are returned.
Summary ==
    /\ pc = "summary"
    /\ pc' = "done"
    /\ outcome' = "returned"
    /\ NoDraw
    /\ UNCHANGED <<config, insightLocals, now, tables, salesLocals, stock, stats_error, files,
                   run, prev>>

\* ------------------------------------------------------ a second run
\* The tables generate_all_data returns.
Returned == [products |-> products, customers |-> customers,
             sales |-> sales, inventory |-> inventory]

\* The caller keeps what generate_all_data returned and builds a generator
\* with the same seed again, at the same or a later time: __init__ seeds the
\* sources, so they deliver the same stream from its start.
Rerun ==
    /\ pc = "done"
    /\ run = 1
    /\ entry = "generate_all_data"
    /\ outcome = "returned"
    /\ prev' = Returned
    /\ run' = 2
    /\ now' \in {t \in Clocks : t >= now}
    /\ pos' = 0
    /\ pc' = "products"
    /\ products' = << >>
    /\ customers' = << >>
    /\ calc_cols' = FALSE
    /\ sales' = << >>
    /\ inventory' = << >>
    /\ sale_id' = 0
    /\ day' = 0
    /\ current_date' = 0
    /\ left' = 0
    /\ base_sales' = 0
    /\ seasonal_adjustment' = 0
    /\ stock' = NoStock
    /\ stats_error' = FALSE
    /\ files' = {}
    /\ outcome' = "running"
    /\ UNCHANGED <<config, insightLocals, stream>>

\* ------------------------------------- dashboard: generate_insights
\* Dates of the rows of the sales table handed to generate_insights.
InsightDates == 0 .. 2
\* The total and the profit of such a row, in cents.
InsightAmounts == {[total |-> 0, profit |-> 0],
                   [total |-> 1000, profit |-> 400],
                   [total |-> 1000, profit |-> 600]}
\* The products table handed to generate_insights: empty, or two products of
\* RobustDataGenerator with margin_pct 70.0 and 30.0.
InsightProducts == {<< >>,
                    <<RobustProduct(1, 1000, 3000), RobustProduct(2, 1000, 7000)>>}

\* The dashboard is about to call generate_insights(sales_filtered, products).
InitInsights ==
    /\ gen = "dashboard"
    /\ entry = "generate_insights"
    /\ n_products = 0
    /\ n_customers = 0
    /\ n_days = 0
    /\ save_to_csv = FALSE
    /\ ConstructedAt({74})

\* The products table of the call.
LoadProducts ==
    /\ entry = "generate_insights"
    /\ pc = "products"
    /\ products' \in InsightProducts
    /\ pc' = "rows"
    /\ NoDraw
    /\ UNCHANGED <<config, insightLocals, now, customers, calc_cols, sales,
                   inventory, salesLocals, stock, stats_error, files, outcome,
                   run, prev>>

\* One more row of the sales table of the call, in the order of the dates.
LoadSaleRow ==
    /\ pc = "rows"
    /\ Len(sales) < MaxRows
    /\ \E d \in InsightDates : \E a \in InsightAmounts :
          /\ sales # << >> => sales[Len(sales)].date <= d
          /\ sales' = Append(sales, [date |-> d, total |-> a.total,
                                      profit |-> a.profit])
    /\ NoDraw
    /\ UNCHANGED <<config, insightLocals, now, pc, products, customers,
                   calc_cols, inventory, salesLocals, stock, stats_error, files,
                   outcome, run, prev>>

\* The index of sales_df.groupby('date'): the dates of the table.
DailyDates == {sales[k].date : k \in DOMAIN sales}

\* daily_sales of a date: the sum of total over its rows.
DailyRevenue(d) == SumTotal(SelectSeq(sales, LAMBDA s : s.date = d))

\* The place of a date in the sorted index, from 0: the x of the fit.
DayIndex(d) == Cardinality({e \in DailyDates : e < d})

RECURSIVE SumIndexRevenue(_)
\* The sum of x * y over the dates D.
SumIndexRevenue(D) ==
    IF D = {} THEN 0
    ELSE LET d == CHOOSE e \in D : TRUE
         IN  DayIndex(d) * DailyRevenue(d) + SumIndexRevenue(D \ {d})

RECURSIVE SumIndex(_)
\* The sum of x over the dates D.
SumIndex(D) ==
    IF D = {} THEN 0
    ELSE LET d == CHOOSE e \in D : TRUE
         IN  DayIndex(d) + SumIndex(D \ {d})

\* The least-squares slope of daily_sales over 0, 1, ..., up to the positive
\* factor n * sum(x^2) - sum(x)^2: n * sum(x * y) - sum(x) * sum(y).
SlopeNumerator ==
    Cardinality(DailyDates) * SumIndexRevenue(DailyDates)
        - SumIndex(DailyDates) * SumTotal(sales)

\* The signs np.polyfit(...)[0] may have: the sign of the slope; for a flat
\* series 0.0 when every value is 0, and otherwise 0.0 or the rounding
\* residue of the floating-point solution, of either sign.
FittedSlopeSigns ==
    IF SlopeNumerator > 0 THEN {"pos"}
    ELSE IF SlopeNumerator < 0 THEN {"neg"}
    ELSE IF SumTotal(sales) = 0 THEN {"zero"}
    ELSE {"neg", "zero", "pos"}

RECURSIVE SumProfit(_)
\* sum of the column profit.
SumProfit(rows) ==
    IF rows = << >> THEN 0 ELSE Head(rows).profit + SumProfit(Tail(rows))

\* 1. the trend message, when the trend was computed.
TrendInsight(t) ==
    IF t = "none" THEN << >>
    ELSE IF t = "pos" THEN <<"positive_trend">>
    ELSE <<"negative_trend">>

\* 3. the margin message: total_prof / total_rev * 100 above 55 or below 45.
MarginInsight ==
    LET total_rev == SumTotal(sales)
        total_prof == SumProfit(sales)
    IN  IF total_rev > 0 /\ total_prof * 100 > 55 * total_rev
        THEN <<"high_margin">>
        ELSE IF total_rev > 0 /\ total_prof * 100 < 45 * total_rev
        THEN <<"low_margin">>
        ELSE << >>

\* 5. the product messages, for a products table with a margin_pct column.
ProductInsights ==
    LET high == {k \in DOMAIN products : products[k].margin_pct > 600}
        low == {k \in DOMAIN products : products[k].margin_pct < 400}
    IN  (IF high # {} THEN <<"high_margin_products">> ELSE << >>)
        \o (IF low # {} THEN <<"low_margin_products">> ELSE << >>)

\* The messages for a non-empty table whose trend is t (message 2, the
\* leading category, and message 4, the weekly pattern, are always there).
InsightsFor(t) ==
    TrendInsight(t) \o <<"top_category">> \o MarginInsight
        \o <<"weekly_pattern">> \o ProductInsights

\* generate_insights(sales_df, products_df) runs and returns its list.
GenerateInsights ==
    /\ pc = "rows"
    /\ IF sales = << >>
       THEN /\ insights' = <<"no_data">>
            /\ trend' = "none"
       ELSE \E t \in IF Len(sales) > 7 /\ Cardinality(DailyDates) > 1
                     THEN FittedSlopeSigns ELSE {"none"} :
               /\ trend' = t
               /\ insights' = IF InsightsFor(t) # << >> THEN InsightsFor(t)
                               ELSE <<"consistent">>
    /\ pc' = "done"
    /\ outcome' = "returned"
    /\ NoDraw
    /\ UNCHANGED <<config, now, tables, salesLocals, stock, stats_error, files,
                   run, prev>>

\* --------------------------------------------------- specifications
\* The steps of generate_products and generate_customers.
Catalogs ==
    \/ GenerateProduct
    \/ ProductsReturn
    \/ GenerateCustomer
    \/ CustomersReturn

\* The steps of EcommerceDataGenerator.generate_sales.
EcommerceSales ==
    \/ EcommerceDayStart
    \/ EcommerceMakeSale
    \/ SalesReturn

\* The steps of generate_inventory.
Inventory ==
    \/ InventoryProduct
    \/ InventoryDay
    \/ InventoryReturn

\* One run of generate_all_data.
Next ==
    \/ Catalogs
    \/ EcommerceSales
    \/ Inventory
    \/ UpdateCustomers
    \/ MakeDirs
    \/ WriteCsv
    \/ Summary

Spec == Init /\ [][Next]_vars

\* One run of generate_all_data that saves its tables.
SpecStages == InitStages /\ [][Next]_vars

\* generate_all_data without saving, run a second time with the same seed.
NextRerun ==
    \/ Catalogs
    \/ EcommerceSales
    \/ Inventory
    \/ UpdateCustomers
    \/ Summary
    \/ Rerun

SpecRerun == InitRerun /\ [][NextRerun]_vars

\* generate_all_data without saving, its customer update applied twice.
NextTwice ==
    \/ Catalogs
    \/ EcommerceSales
    \/ Inventory
    \/ UpdateCustomers
    \/ UpdateAgain
    \/ Summary

SpecTwice == InitRerun /\ [][NextTwice]_vars

\* EcommerceDataGenerator.generate_sales, on the catalogs of the class.
NextSales ==
    \/ Catalogs
    \/ EcommerceSales

SpecSales == InitSales /\ [][NextSales]_vars

\* EcommerceDataGenerator.generate_sales through the seasons of the year.
SpecSeasonal == InitSeasonal /\ [][NextSales]_vars

\* RobustDataGenerator.generate_sales, on the products of the class.
NextRobust ==
    \/ GenerateProduct
    \/ ProductsReturn
    \/ RobustDayStart
    \/ RobustMakeSale
    \/ SalesReturn

SpecRobust == InitRobust /\ [][NextRobust]_vars

\* generate_inventory on the products of its class.
NextInventory ==
    \/ GenerateProduct
    \/ ProductsReturn
    \/ Inventory

SpecInventory == InitInventory /\ [][NextInventory]_vars

\* generate_insights of the dashboard on a sales and a products table.
NextInsights ==
    \/ LoadProducts
    \/ LoadSaleRow
    \/ GenerateInsights

SpecInsights == InitInsights /\ [][NextInsights]_vars


\* ------------------------------------------------------- properties
\* What the properties say about the tables, counted from the Sale table
\* itself.
Terminated == pc \in {"done", "raised"}

\* What the caller holds once the call is over: the tables of the return
\* statement, or nothing when an exception left the method.
Received == IF outcome = "returned" THEN Returned ELSE << >>

\* The places of the Sale table of the customer with this id.
SalePlacesOf(id) == {k \in DOMAIN sales : sales[k].customer_id = id}

RECURSIVE SpentUpTo(_, _)
\* The sum of total over the first n sales of the customer with this id.
SpentUpTo(id, n) ==
    IF n = 0 THEN 0
    ELSE SpentUpTo(id, n - 1)
         + (IF sales[n].customer_id = id THEN sales[n].total ELSE 0)

ProductIds == {products[k].product_id : k \in DOMAIN products}
CustomerIds == {customers[k].customer_id : k \in DOMAIN customers}

\* C1: every customer generate_all_data returns has total_orders = the number
\* of its Sale records and total_spent = the sum of their totals; a customer
\* without Sale records has 0, 0 and a null last_purchase_date.
C1_AggregateCorrectness ==
    (entry = "generate_all_data" /\ outcome = "returned") =>
        \A k \in DOMAIN customers :
            LET c == customers[k]
                mine == SalePlacesOf(c.customer_id)
            IN  /\ c.total_orders = Cardinality(mine)
                /\ c.total_spent = SpentUpTo(c.customer_id, Len(sales))
                /\ (mine = {}) => (/\ c.total_orders = 0
                                   /\ c.total_spent = 0
                                   /\ c.last_purchase_date = Null)

\* C2: the sale ids of EcommerceDataGenerator.generate_sales are 1, 2, ...,
\* len(sales) in generation order, across day boundaries and empty days.
C2_SaleIdsAreOneToLen ==
    gen = "ecommerce" => \A k \in DOMAIN sales : sales[k].sale_id = k

\* C2 witness: a returned Sale table whose two sales are of different days.
C2_Witness ==
    /\ gen = "ecommerce"
    /\ outcome = "returned"
    /\ Len(sales) = 2
    /\ sales[1].date < sales[2].date

\* C3: every Sale record has the product_id of a generated Product and the
\* customer_id of a generated Customer.
C3_ReferentialIntegrity ==
    \A k \in DOMAIN sales :
        /\ sales[k].product_id \in ProductIds
        /\ sales[k].customer_id \in CustomerIds

\* The unit cost of the product a sale refers to.
UnitCostOf(product_id) ==
    (CHOOSE r \in {products[k] : k \in DOMAIN products} :
        r.product_id = product_id).cost

\* C4: on the stored fields of every Sale record of EcommerceDataGenerator,
\* total = round(unit_price * quantity * (1 - discount_pct / 100), 2) and
\* profit = round((unit_price - cost) * quantity * (1 - discount_pct / 100), 2).
C4_ArithmeticConsistency ==
    gen = "ecommerce" =>
        \A k \in DOMAIN sales :
            LET s == sales[k]
            IN  /\ s.total = RoundDiv(s.unit_price * s.quantity
                                          * (1000 - s.discount_pct), 1000)
                /\ s.profit = RoundDiv((s.unit_price - UnitCostOf(s.product_id))
                                           * s.quantity
                                           * (1000 - s.discount_pct), 1000)

\* C5: a second run with the same seed and configuration returns the same
\* four tables as the first, whenever it starts.
C5_Determinism ==
    (run = 2 /\ outcome = "returned") => Returned = prev

\* C6: with zero products or zero customers configured, no random draw is
\* made, no record is produced, no file is written, and the run ends in an
\* error.
C6_EmptyConfigurationRejected ==
    (entry = "generate_all_data" /\ (n_products = 0 \/ n_customers = 0)) =>
        /\ pos = 0
        /\ products = << >> /\ customers = << >> /\ sales = << >>
        /\ files = {}
        /\ outcome # "returned"

\* C7: when generate_all_data with saving enabled has ended, by a return or
\* by an exception, all four files are written or none is.
C7_AllFilesOrNone ==
    (entry = "generate_all_data" /\ save_to_csv /\ Terminated) =>
        (files = {} \/ files = {FileOrder[k] : k \in DOMAIN FileOrder})

\* C8: when writing the files fails, the error reaches the caller and the
\* caller still receives the four tables.
C8_TablesReturnedOnWriteFailure ==
    (save_to_csv /\ pc = "raised" /\ outcome = "OSError") =>
        Received = Returned

\* C9: a run that reports no error has not fallen back to the defaults: the
\* statistics step did not fail, and a customer with total_orders = 0 and
\* total_spent = 0 has no Sale record.
C9_NoSilentFallback ==
    (entry = "generate_all_data" /\ outcome = "returned") =>
        /\ ~stats_error
        /\ \A k \in DOMAIN customers :
              (customers[k].total_orders = 0 /\ customers[k].total_spent = 0)
                  => SalePlacesOf(customers[k].customer_id) = {}

\* The latest date among the sales of the customer with this id.
LastDateOf(id) ==
    CHOOSE d \in {sales[k].date : k \in SalePlacesOf(id)} :
        \A k \in SalePlacesOf(id) : sales[k].date <= d

\* C10: after the customer update, last_purchase_date is null exactly for the
\* customers with total_orders = 0, and is otherwise the latest date of the
\* customer's sales.
C10_LastPurchaseDate ==
    (entry = "generate_all_data" /\ pc \in {"save", "write", "summary", "done"}) =>
        \A k \in DOMAIN customers :
            LET c == customers[k]
            IN  /\ (c.last_purchase_date = Null) <=> (c.total_orders = 0)
                /\ (c.total_orders > 0) =>
                      (/\ SalePlacesOf(c.customer_id) # {}
                       /\ c.last_purchase_date = LastDateOf(c.customer_id))

\* C11: a second application of the customer update to its own output, with
\* the same Sale table, leaves the Customer table as the first application
\* left it.
C11_IdempotentAggregation ==
    DOMAIN prev # {} => CustomerTable = prev

\* The stages of generate_all_data, in the order of its calls.
StageOf(p) ==
    CASE p = "products" -> 1
      [] p = "customers" -> 2
      [] p \in {"day", "sale"} -> 3
      [] p \in {"inventory", "inv_day"} -> 4
      [] p = "stats" -> 5
      [] p \in {"save", "write"} -> 6
      [] p = "summary" -> 7
      [] OTHER -> 8

\* A step changes an aggregate field of a customer.
AggregatesChanged ==
    \E k \in DOMAIN customers :
        /\ k \in DOMAIN customers'
        /\ \/ customers'[k].total_spent # customers[k].total_spent
           \/ customers'[k].total_orders # customers[k].total_orders
           \/ customers'[k].last_purchase_date # customers[k].last_purchase_date

\* C12: the stages of generate_all_data never run backwards; a Sale is
\* appended only when all products and customers exist, and leaves the
\* customers alone; the aggregate fields change only in the step that follows
\* the last Sale and the inventory, before any file; a file is written only
\* after that step.
C12_StageOrdering ==
    [][/\ StageOf(pc') >= StageOf(pc)
       /\ (sales' # sales) =>
              /\ Len(products) = n_products
              /\ Len(customers) = n_customers
              /\ StageOf(pc) = 3
              /\ customers' = customers
       /\ AggregatesChanged =>
              /\ StageOf(pc) = 5
              /\ StageOf(pc') > 5
              /\ day = n_days
              /\ sales' = sales
              /\ files = {}
       /\ (files' # files) =>
              /\ StageOf(pc) = 6
              /\ customers' = customers
              /\ sales' = sales]_vars

\* C12 witness: a run with a sale has returned, its customer updated and its
\* four files written.
C12_Witness ==
    /\ entry = "generate_all_data"
    /\ outcome = "returned"
    /\ Cardinality(files) = Len(FileOrder)
    /\ sales # << >>
    /\ \E k \in DOMAIN customers : customers[k].total_orders > 0

\* The start date of generate_sales: the clock reading minus the day count.
StartDate == now - n_days

\* C13: every Sale record is dated one of the days StartDate, StartDate + 1,
\* ..., StartDate + n_days - 1; none is dated StartDate + n_days or later.
C13_DateCoverage ==
    \A k \in DOMAIN sales :
        /\ StartDate <= sales[k].date
        /\ sales[k].date < StartDate + n_days

\* A day of EcommerceDataGenerator.generate_sales has been started.
DayStarted == gen = "ecommerce" /\ pc \in {"day", "sale"} /\ day > 0

\* C14: the day factor within the seasonal adjustment of a day is 1.5 exactly
\* when the day is a Friday (4) or a Saturday (5), and 1.0 on every other day.
C14_WeekendIsFridaySaturday ==
    DayStarted =>
        seasonal_adjustment =
            (IF Weekday(current_date) \in {4, 5} THEN 15 ELSE 10)
                * MonthFactor10(current_date)

\* The month factor as the property states it, times 10.
StatedMonthFactor10(d) ==
    CASE MonthOf(d) = 12 -> 25
      [] MonthOf(d) = 11 -> 20
      [] MonthOf(d) \in {6, 7} -> 13
      [] OTHER -> 10

\* The Sale records dated d.
SalesDated(d) == {k \in DOMAIN sales : sales[k].date = d}

PlainDatesLike(d) ==
    {e \in 0 .. 365 : /\ MonthOf(e) \notin {6, 7, 11, 12}
                      /\ Weekday(e) = Weekday(d)}

\* C16: the count computed for a day of December, November, June or July is
\* at least the count the same base gives on the same weekday of any
\* non-seasonal month.
C16_SeasonalMonotonicity ==
    (DayStarted /\ MonthOf(current_date) \in {6, 7, 11, 12}) =>
        \A e \in PlainDatesLike(current_date) :
            Cardinality(SalesDated(current_date)) + left
                >= DailySales(base_sales, e)

\* C16 witness: a Monday of December whose base of 1 gave two sales, more than
\* the one sale of a Monday of March.
C16_Witness ==
    /\ DayStarted
    /\ MonthOf(current_date) = 12
    /\ Weekday(current_date) = 0
    /\ base_sales = 1
    /\ left = 0
    /\ Cardinality(SalesDated(current_date)) > DailySales(base_sales, 70)

\* C17: a restock happens only on a day whose stock after the sales is at
\* most reorder_point, it leaves the stock between reorder_point and
\* ideal_stock, and no inventory record has a current_stock above its
\* ideal_stock.
C17_RestockBounds ==
    /\ (pc \in {"inventory", "inv_day"} /\ stock.restock # Null) =>
           /\ stock.current_stock - stock.restock <= stock.reorder_point
           /\ stock.reorder_point <= stock.current_stock
           /\ stock.current_stock <= stock.ideal_stock
    /\ \A k \in DOMAIN inventory :
           inventory[k].current_stock <= inventory[k].ideal_stock

\* C18: every inventory record has current_stock >= 0 and has stock_status
\* LOW exactly when its own current_stock is at most its reorder_point, and
\* OK otherwise.
C18_InventoryStatus ==
    \A k \in DOMAIN inventory :
        LET r == inventory[k]
        IN  /\ r.current_stock >= 0
            /\ r.stock_status \in {"LOW", "OK"}
            /\ (r.stock_status = "LOW") <=> (r.current_stock <= r.reorder_point)

\* C18 witness: generate_inventory has returned a product's record with the
\* stock exactly at the reorder point, followed by its record of the next
\* day after a restock, with a status OK.
C18_Witness ==
    /\ entry = "generate_inventory"
    /\ outcome = "returned"
    /\ \E k \in DOMAIN inventory :
          /\ k + 1 \in DOMAIN inventory
          /\ inventory[k].product_id = inventory[k + 1].product_id
          /\ inventory[k].current_stock = inventory[k].reorder_point
          /\ inventory[k].stock_status = "LOW"
          /\ inventory[k + 1].current_stock > inventory[k].current_stock
          /\ inventory[k + 1].stock_status = "OK"

\* The stored margin percentage of a product record, in tenths of a percent.
MarginOf(r) == IF gen = "ecommerce" THEN r.margin ELSE r.margin_pct

\* C19: every product record has cost <= price and a stored margin
\* percentage in [0, 100) that is (price - cost) / price * 100 of its stored
\* price and cost, rounded to one decimal.
C19_ProductMargin ==
    \A k \in DOMAIN products :
        LET r == products[k]
        IN  /\ r.cost <= r.price
            /\ 0 <= MarginOf(r) /\ MarginOf(r) < 1000
            /\ MarginOf(r) = RoundDiv((r.price - r.cost) * 1000, r.price)

\* C20: the customer update of generate_all_data keeps the rows of the
\* Customer table, their customer_id values 1, 2, ... in their order and
\* their other columns, leaves no calc_* column behind, and leaves the Sale,
\* Product and Inventory tables alone.
C20_UpdateFrame ==
    [][(pc = "stats") =>
          /\ Len(customers') = Len(customers)
          /\ \A k \in DOMAIN customers :
                /\ customers'[k].customer_id = k
                /\ customers'[k].customer_id = customers[k].customer_id
                /\ customers'[k].region = customers[k].region
          /\ ~calc_cols'
          /\ sales' = sales
          /\ products' = products
          /\ inventory' = inventory]_vars

\* The messages of a list.
Emitted == {insights[k] : k \in DOMAIN insights}

\* C21: for an empty sales table generate_insights returns the no-data
\* message alone; for a table of more than 7 rows and more than one date the
\* positive-trend message is there only for a slope > 0, the negative-trend
\* message only for a slope < 0, and never both.
C21_TrendFollowsSlopeSign ==
    (entry = "generate_insights" /\ outcome = "returned") =>
        /\ (sales = << >>) => insights = <<"no_data">>
        /\ (Len(sales) > 7 /\ Cardinality(DailyDates) > 1) =>
              /\ ("positive_trend" \in Emitted) => trend = "pos"
              /\ ("negative_trend" \in Emitted) => trend = "neg"
              /\ ~({"positive_trend", "negative_trend"} \subseteq Emitted)

=============================================================================
